---- MODULE Spec2Model ----
(***************************************************************************)
(* A model of leetcli (src/src/leetcli/cli.py): the on-disk cache          *)
(* (load_cache / save_cache), the catalog and detail fetches               *)
(* (fetch_problem_list, fetch_problem_list_rest, fetch_question over       *)
(* post_graphql), the resolver (resolve_slug), the pagination loop, the    *)
(* renderer of result lists (render_search), the three subcommands with    *)
(* their exit status (cmd_search, cmd_get, cmd_open, main), the HTML to    *)
(* text converter (HtmlToText, html_to_text) and two processes that use    *)
(* one cache file at the same time.                                        *)
(***************************************************************************)
EXTENDS Integers, Sequences, FiniteSets, TLC

VARIABLES
    now,        \* the wall clock, time.time(), counted in ticks of 1/TicksPerSecond s
    files,      \* the cache directory: file name -> file content
    pc,         \* where the running process stands: "idle", "paging", "rest", "detail"
    all_items,  \* fetch_problem_list: the accumulated entries
    skip,       \* fetch_problem_list: the offset of the next page
    slug,       \* fetch_question: its argument
    net,        \* the requests the current (or last) call has issued, in order
    result,     \* how the last call ended: returned value or raised exception
    files0,     \* the cache directory as it was when the current (or last) call began
    lastSave,   \* per file name, the value and the instant of the last save_cache
    query,      \* resolve_slug: the user's query, a string as the sequence of its characters
    catalog,    \* resolve_slug: the catalog entries, in catalog order
    resolved,   \* resolve_slug: the pair it returned
    p_pc,       \* the pagination loop: "send", "wait", "done" or "failed"
    p_skip,     \* the pagination loop: skip
    p_len,      \* the pagination loop: len(all_items)
    p_sent,     \* the pagination loop: the skip of the requests sent so far, the last one
    p_inflight, \* the pagination loop: page requests sent and not yet answered
    p_page,     \* the pagination loop: the page last received, its length and total
    r_matches,  \* render_search: its argument matches
    r_limit,    \* render_search: its argument limit
    r_out,      \* render_search: the lines of the string it returned
    command,    \* main: the subcommand that args.func stands for, "" when none runs
    cmd_query,  \* the subcommand: args.query
    cmd_pc,     \* the subcommand: "none", "list", "detail" or "exit"
    cmd_slug,   \* cmd_get: the slug resolve_slug returned
    exit_code,  \* main: the status handed to sys.exit, -1 while there is none
    printed,    \* the lines the process has printed, each by its kind
    escaped,    \* the exception that left main unhandled, "" when none did
    parser,     \* html_to_text: the HtmlToText object
    h_fed,      \* html_to_text: the handler calls feed has made so far
    h_text,     \* html_to_text: the string the last call returned
    h_again,    \* html_to_text applied to h_text as its input
    h_left_pre, \* html_to_text: the call before this one ended inside a pre block
    disk,       \* the shared cache file: whether it exists, and its bytes
    procs,      \* the two processes: operation, position in it, argument, outcome
    last_writer \* the write that came last, and the values written so far

fetchLocals == <<pc, all_items, skip, slug, net, files0>>
resolveVars == <<query, catalog, resolved>>
pagingVars == <<p_pc, p_skip, p_len, p_sent, p_inflight, p_page>>
renderVars == <<r_matches, r_limit, r_out>>
cmdVars == <<command, cmd_query, cmd_pc, cmd_slug, exit_code, printed, escaped>>
htmlVars == <<parser, h_fed, h_text, h_again, h_left_pre>>
raceVars == <<disk, procs, last_writer>>

vars == <<now, files, result, lastSave, fetchLocals, resolveVars, pagingVars,
          renderVars, cmdVars, htmlVars, raceVars>>

\* the variables the fetch layer, the cache, the resolver and the pagination loop leave alone
outsideFetch == <<lastSave, resolveVars, pagingVars, renderVars, cmdVars, htmlVars, raceVars>>
outsideCache == <<fetchLocals, resolveVars, pagingVars, renderVars, cmdVars, htmlVars, raceVars>>
outsideResolve == <<now, files, result, lastSave, fetchLocals, pagingVars,
                    renderVars, cmdVars, htmlVars, raceVars>>
outsidePaging == <<now, files, result, lastSave, fetchLocals, resolveVars,
                   renderVars, cmdVars, htmlVars, raceVars>>
outsideRender == <<now, files, result, lastSave, fetchLocals, resolveVars, pagingVars,
                   cmdVars, htmlVars, raceVars>>
outsideCmd == <<lastSave, resolveVars, pagingVars, renderVars, htmlVars, raceVars>>
outsideHtml == <<now, files, result, lastSave, fetchLocals, resolveVars, pagingVars,
                 renderVars, cmdVars, raceVars>>
outsideRace == <<now, files, result, lastSave, fetchLocals, resolveVars, pagingVars,
                 renderVars, cmdVars, htmlVars>>

----------------------------------------------------------------------------
(* Program constants *)

LIST_TTL_SECONDS == 24 * 60 * 60
QUESTION_TTL_SECONDS == 7 * 24 * 60 * 60
limit == 100

(* Bounds of the model *)

TicksPerSecond == 2     \* clock resolution: time.time() is a float, the stored stamp an int
MaxSlack == 1           \* ticks modelled around every multiple of a TTL
MaxItems == 2           \* entries the servers hand out in one call, in total
MaxTotal == 3           \* largest totalNum a page reports

----------------------------------------------------------------------------
(* Python values, tagged with their type *)

PyNone == [t |-> "None"]
PyInt(n) == [t |-> "int", v |-> n]
PyStr(s) == [t |-> "str", v |-> s]
PyList(s) == [t |-> "list", v |-> s]
PyBool(b) == [t |-> "bool", v |-> b]
PyDict(f) == [t |-> "dict", v |-> f]
PyInf == [t |-> "inf", v |-> 0]     \* float("inf"), which json.loads reads from Infinity

\* n >= x for an int n and a number x
int_ge(n, x) == IF x.t = "inf" THEN FALSE ELSE n >= x.v

\* bool(v), as `if cached:` evaluates it
Truthy(v) ==
    CASE v.t = "None" -> FALSE
      [] v.t = "bool" -> v.v
      [] v.t = "int" -> v.v # 0
      [] v.t = "str" -> v.v # ""
      [] v.t = "list" -> Len(v.v) > 0
      [] v.t = "dict" -> DOMAIN v.v # {}

\* d.get(key) on a dict
dict_get(d, key) == IF key \in DOMAIN d.v THEN d.v[key] ELSE PyNone

\* how a function call ends
Return(v) == [kind |-> "return", value |-> v, exc |-> ""]
Raise(e) == [kind |-> "raise", value |-> PyNone, exc |-> e]

----------------------------------------------------------------------------
(* The cache: one file per name *)

NoFile == [exists |-> FALSE, json |-> FALSE, doc |-> PyNone]
Garbage == [exists |-> TRUE, json |-> FALSE, doc |-> PyNone]   \* text json.loads rejects
JsonText(v) == [exists |-> TRUE, json |-> TRUE, doc |-> v]     \* the text of the JSON document v

\* json.dumps(payload, indent=2), written by path.write_text
json_dumps(v) == JsonText(v)

\* json.loads(path.read_text())
json_loads(text) == IF text.json THEN Return(text.doc) ELSE Raise("JSONDecodeError")

ExpiredAtTtl(t, fetched_at, ttl_seconds) ==
    t - fetched_at * TicksPerSecond >= ttl_seconds * TicksPerSecond

\* time.time() - fetched_at > ttl_seconds, in ticks
Expired(t, fetched_at, ttl_seconds) ==
    t - fetched_at * TicksPerSecond > ttl_seconds * TicksPerSecond

load_cache(fs, t, name, ttl_seconds) ==
    LET path == fs[name] IN
    IF ~path.exists THEN Return(PyNone)
    ELSE LET parsed == json_loads(path) IN
         IF parsed.kind = "raise" THEN Return(PyNone)
         ELSE LET payload == parsed.value IN
              IF payload.t # "dict" THEN Raise("AttributeError")   \* payload.get on a non-dict
              ELSE LET fetched_at == dict_get(payload, "fetched_at") IN
                   IF fetched_at.t \notin {"int", "float"} THEN Return(PyNone)
                   ELSE IF Expired(t, fetched_at.v, ttl_seconds) THEN Return(PyNone)
                   ELSE Return(dict_get(payload, "data"))

save_cache(fs, t, name, data) ==
    LET payload == PyDict([fetched_at |-> PyInt(t \div TicksPerSecond), data |-> data]) IN
    [fs EXCEPT ![name] = json_dumps(payload)]

----------------------------------------------------------------------------
(* The transport: what a server can answer to one request *)

UrlError == [k |-> "urlerror", text |-> NoFile]     \* no connection: urllib.error.URLError
Timeout == [k |-> "timeout", text |-> NoFile]       \* the 30 s timeout expires while reading
HttpError == [k |-> "http", text |-> Garbage]       \* a status that is not 2xx: urllib.error.HTTPError
Body(text) == [k |-> "body", text |-> text]         \* a 2xx answer with this body

\* d[key] on a dict
Subscript(d, key) ==
    IF d.t # "dict" THEN Raise("TypeError")
    ELSE IF key \in DOMAIN d.v THEN Return(d.v[key]) ELSE Raise("KeyError")

post_graphql(resp) ==
    IF resp.k = "urlerror" THEN Raise("URLError")
    ELSE IF resp.k = "timeout" THEN Raise("TimeoutError")
    ELSE IF resp.k = "http" THEN Raise("RuntimeError")
    ELSE LET parsed == json_loads(resp.text) IN
         IF parsed.kind = "raise" THEN parsed
         ELSE LET data == parsed.value IN
              IF "errors" \in DOMAIN data.v THEN Raise("RuntimeError")
              ELSE Subscript(data, "data")

\* the problem the servers know
ProblemIds == {1}
TitleSlug(i) == "two-sum"
Title(i) == "Two Sum"
Slugs == {TitleSlug(i) : i \in ProblemIds}

\* str(n) for the ids in use
str(n) == CASE n = 1 -> "1" [] OTHER -> "0"

\* an entry of a problemsetQuestionList page (LIST_QUERY)
GraphqlEntry(i) ==
    PyDict([questionId |-> PyStr(str(i)), questionFrontendId |-> PyStr(str(i)),
            title |-> PyStr(Title(i)), titleSlug |-> PyStr(TitleSlug(i)),
            difficulty |-> PyStr("Easy"), paidOnly |-> PyBool(FALSE)])

\* an entry of stat_status_pairs in the REST snapshot; the two sources need not agree
RestEntry(i) ==
    PyDict([stat |-> PyDict([question_id |-> PyInt(i), frontend_question_id |-> PyInt(i),
                             question__title |-> PyStr(Title(i)),
                             question__title_slug |-> PyStr(TitleSlug(i))]),
            difficulty |-> PyDict([level |-> PyInt(2)]),
            paid_only |-> PyBool(FALSE)])

SeqsUpTo(S, n) == UNION {[1..m -> S] : m \in 0..n}

ListBody(items, total) ==
    Body(JsonText(PyDict([data |-> PyDict([problemsetQuestionList |->
        PyDict([total |-> total, questions |-> PyList(items)])])])))
ErrorsBody == Body(JsonText(PyDict([errors |-> PyStr("error")])))
EmptyBody == Body(JsonText(PyDict(<<>>)))

\* the answers to a page request when room entries may still be handed out
ListResponses(room) ==
    {UrlError, Timeout, HttpError, Body(Garbage), ErrorsBody, EmptyBody}
    \cup {ListBody(items, PyInt(total)) :
            items \in SeqsUpTo({GraphqlEntry(i) : i \in ProblemIds}, room),
            total \in 0..MaxTotal}

RestBody(pairs) == Body(JsonText(PyDict([stat_status_pairs |-> PyList(pairs)])))

RestResponses ==
    {UrlError, Timeout, HttpError, Body(Garbage), EmptyBody}
    \cup {RestBody(pairs) : pairs \in SeqsUpTo({RestEntry(i) : i \in ProblemIds}, MaxItems)}

QuestionDetail(s) ==
    PyDict([titleSlug |-> PyStr(s), content |-> PyStr("<p>text</p>"), isPaidOnly |-> PyBool(FALSE)])
DetailBody(question) == Body(JsonText(PyDict([data |-> PyDict([question |-> question])])))

\* the answers to a detail request: the question field is null for a slug the server does not know
DetailResponses(s) ==
    {UrlError, Timeout, HttpError, Body(Garbage), ErrorsBody, EmptyBody,
     DetailBody(PyNone), DetailBody(QuestionDetail(s))}

\* one entry of the REST snapshot in the catalog's shape
NormalizeRest(entry) ==
    LET stat == IF "stat" \in DOMAIN entry.v THEN entry.v["stat"] ELSE PyDict(<<>>)
        diffd == IF "difficulty" \in DOMAIN entry.v THEN entry.v["difficulty"] ELSE PyDict(<<>>)
        difficulty == dict_get(diffd, "level")
        diff_label == IF difficulty = PyInt(1) THEN "Easy"
                      ELSE IF difficulty = PyInt(2) THEN "Medium"
                      ELSE IF difficulty = PyInt(3) THEN "Hard"
                      ELSE "Unknown"
        strOf(v) == IF v.t = "int" THEN str(v.v) ELSE ""
    IN PyDict([questionId |-> PyStr(strOf(dict_get(stat, "question_id"))),
               questionFrontendId |-> PyStr(strOf(dict_get(stat, "frontend_question_id"))),
               title |-> IF "question__title" \in DOMAIN stat.v
                         THEN stat.v["question__title"] ELSE PyStr(""),
               titleSlug |-> IF "question__title_slug" \in DOMAIN stat.v
                             THEN stat.v["question__title_slug"] ELSE PyStr(""),
               difficulty |-> PyStr(diff_label),
               paidOnly |-> IF "paid_only" \in DOMAIN entry.v
                            THEN entry.v["paid_only"] ELSE PyBool(FALSE)])

\* fetch_problem_list_rest on the answer resp: the normalized list, or the exception
fetch_problem_list_rest(resp) ==
    IF resp.k \in {"urlerror", "http"} THEN Raise("URLError")   \* HTTPError is a URLError
    ELSE IF resp.k = "timeout" THEN Raise("TimeoutError")
    ELSE LET parsed == json_loads(resp.text) IN
         IF parsed.kind = "raise" THEN parsed
         ELSE LET payload == parsed.value
                  pairs == IF "stat_status_pairs" \in DOMAIN payload.v
                           THEN payload.v["stat_status_pairs"].v ELSE <<>>
              IN Return(PyList([n \in 1..Len(pairs) |-> NormalizeRest(pairs[n])]))

----------------------------------------------------------------------------
(* The fetch layer, one step per blocking point of the process *)

cache_name(s) == "question_" \o s \o ".json"
CacheNames == {"problem_list.json"} \cup {cache_name(s) : s \in Slugs}

ListRequest(n) == [url |-> "GRAPHQL_URL", query |-> "LIST_QUERY", arg |-> PyInt(n)]
DetailRequest(s) == [url |-> "GRAPHQL_URL", query |-> "DETAIL_QUERY", arg |-> PyStr(s)]
RestRequest == [url |-> "PROBLEM_LIST_URL", query |-> "", arg |-> PyNone]

NoCall == [call |-> "", kind |-> "none", value |-> PyNone, exc |-> ""]
Running(call) == [call |-> call, kind |-> "running", value |-> PyNone, exc |-> ""]
Ended(call, outcome) ==
    [call |-> call, kind |-> outcome.kind, value |-> outcome.value, exc |-> outcome.exc]

\* the instants the clock is observed at: up to MaxSlack ticks after the start or a TTL
Instants ==
    {base * TicksPerSecond + k :
        base \in {0, LIST_TTL_SECONDS, QUESTION_TTL_SECONDS}, k \in 0..MaxSlack}

\* records no save_cache wrote: what load_cache may find on a disk it does not own
MalformedContents ==
    {Garbage, JsonText(PyList(<<>>)), JsonText(PyStr("x")), JsonText(PyInt(7)), JsonText(PyNone),
     JsonText(PyDict([data |-> PyStr("x")])),
     JsonText(PyDict([fetched_at |-> PyStr("x"), data |-> PyStr("x")]))}

\* nothing saved under a name yet
NoSave == [value |-> PyNone, at |-> -1]

\* resolve_slug has not been called
NotResolved == [done |-> FALSE, slug |-> PyNone, matches |-> PyNone]

ResolveUnused ==
    /\ query = <<>>
    /\ catalog = <<>>
    /\ resolved = NotResolved

\* the state fetch_problem_list enters its loop in
PagingStart ==
    /\ p_pc = "send"
    /\ p_skip = 0
    /\ p_len = 0
    /\ p_sent = -1
    /\ p_inflight = 0
    /\ p_page = [n |-> 0, total |-> PyInt(0)]

\* render_search has not been called
RenderUnused ==
    /\ r_matches = <<>>
    /\ r_limit = 0
    /\ r_out = <<>>

\* no subcommand runs
CmdUnused ==
    /\ command = ""
    /\ cmd_query = <<>>
    /\ cmd_pc = "none"
    /\ cmd_slug = ""
    /\ exit_code = -1
    /\ printed = <<>>
    /\ escaped = ""

\* HtmlToText.__init__; origin is bookkeeping beside _chunks: which statement
\* appended each chunk ("text", "space", "pre", "newline", "tick", "prefix")
NewParser ==
    [chunks |-> <<>>, origin |-> <<>>, in_pre |-> FALSE, pending_space |-> FALSE,
     list_prefix |-> ""]

\* html_to_text has not been called
HtmlUnused ==
    /\ parser = NewParser
    /\ h_fed = 0
    /\ h_text = PyNone
    /\ h_again = PyNone
    /\ h_left_pre = FALSE

\* no process touches the shared file
RaceUnused ==
    /\ disk = [exists |-> FALSE, bytes |-> <<>>]
    /\ procs = <<>>
    /\ last_writer = [proc |-> 0, data |-> PyNone, wrote |-> {}]

Init ==
    /\ now = 0
    /\ ResolveUnused
    /\ PagingStart
    /\ RenderUnused
    /\ CmdUnused
    /\ HtmlUnused
    /\ RaceUnused
    /\ \E name \in CacheNames : \E c \in {NoFile} \cup MalformedContents :
          files = [m \in CacheNames |-> IF m = name THEN c ELSE NoFile]
    /\ pc = "idle"
    /\ all_items = <<>>
    /\ skip = 0
    /\ slug = ""
    /\ net = <<>>
    /\ result = NoCall
    /\ files0 = files
    /\ lastSave = [m \in CacheNames |-> NoSave]

\* the call is over: the locals are gone
Finish(call, outcome) ==
    /\ pc' = "idle"
    /\ all_items' = <<>>
    /\ skip' = 0
    /\ slug' = ""
    /\ result' = Ended(call, outcome)

\* fetch_problem_list up to its first page request
FetchProblemList ==
    /\ pc = "idle"
    /\ files0' = files
    /\ LET cached == load_cache(files, now, "problem_list.json", LIST_TTL_SECONDS) IN
       IF cached.kind = "raise"
       THEN /\ Finish("fetch_problem_list", cached)
            /\ net' = <<>>
       ELSE IF Truthy(cached.value)
       THEN /\ Finish("fetch_problem_list", Return(cached.value))
            /\ net' = <<>>
       ELSE /\ pc' = "paging"
            /\ all_items' = <<>>
            /\ skip' = 0
            /\ slug' = ""
            /\ result' = Running("fetch_problem_list")
            /\ net' = <<ListRequest(0)>>
    /\ UNCHANGED <<now, files, outsideFetch>>

\* the loop body of fetch_problem_list on the answer resp: the page's questions and total
PageOf(resp) ==
    LET data == post_graphql(resp) IN
    IF data.kind = "raise" THEN data
    ELSE Subscript(data.value, "problemsetQuestionList")

\* fetch_problem_list from the answer to a page request to the next blocking point
PageResponse(resp) ==
    /\ pc = "paging"
    /\ LET problemset == PageOf(resp) IN
       IF problemset.kind = "raise"
       THEN IF problemset.exc = "RuntimeError"
            THEN /\ pc' = "rest"
                 /\ net' = Append(net, RestRequest)
                 /\ UNCHANGED <<files, all_items, skip, slug, result>>
            ELSE /\ Finish("fetch_problem_list", problemset)
                 /\ UNCHANGED <<files, net>>
       ELSE LET items == problemset.value.v["questions"].v
                total == problemset.value.v["total"]
                acc == all_items \o items
            IN IF int_ge(Len(acc), total) \/ items = <<>>
               THEN /\ files' = save_cache(files, now, "problem_list.json", PyList(acc))
                    /\ Finish("fetch_problem_list", Return(PyList(acc)))
                    /\ UNCHANGED net
               ELSE /\ all_items' = acc
                    /\ skip' = skip + limit
                    /\ net' = Append(net, ListRequest(skip + limit))
                    /\ UNCHANGED <<files, pc, slug, result>>
    /\ UNCHANGED <<now, files0, outsideFetch>>

\* fetch_problem_list from the answer of the REST snapshot to its end
RestResponseKeepsPages(resp) ==
    /\ pc = "rest"
    /\ LET rest == fetch_problem_list_rest(resp) IN
       IF rest.kind = "raise"
       THEN /\ Finish("fetch_problem_list", rest)
            /\ UNCHANGED files
       ELSE LET merged == PyList(all_items \o rest.value.v) IN
            /\ files' = save_cache(files, now, "problem_list.json", merged)
            /\ Finish("fetch_problem_list", Return(merged))
    /\ UNCHANGED <<now, net, files0, outsideFetch>>

RestResponseSavesFirst(resp) ==
    /\ pc = "rest"
    /\ LET rest == fetch_problem_list_rest(resp) IN
       IF rest.kind = "raise"
       THEN /\ files' = save_cache(files, now, "problem_list.json", PyList(all_items))
            /\ Finish("fetch_problem_list", rest)
       ELSE /\ files' = save_cache(files, now, "problem_list.json", rest.value)
            /\ Finish("fetch_problem_list", Return(rest.value))
    /\ UNCHANGED <<now, net, files0, outsideFetch>>

RestResponse(resp) ==
    /\ pc = "rest"
    /\ LET rest == fetch_problem_list_rest(resp) IN
       IF rest.kind = "raise"
       THEN /\ Finish("fetch_problem_list", rest)
            /\ UNCHANGED files
       ELSE /\ files' = save_cache(files, now, "problem_list.json", rest.value)
            /\ Finish("fetch_problem_list", Return(rest.value))
    /\ UNCHANGED <<now, net, files0, outsideFetch>>

\* fetch_question up to its detail request
FetchQuestion(s) ==
    /\ pc = "idle"
    /\ files0' = files
    /\ LET cached == load_cache(files, now, cache_name(s), QUESTION_TTL_SECONDS) IN
       IF cached.kind = "raise"
       THEN /\ Finish("fetch_question", cached)
            /\ net' = <<>>
       ELSE IF Truthy(cached.value)
       THEN /\ Finish("fetch_question", Return(cached.value))
            /\ net' = <<>>
       ELSE /\ pc' = "detail"
            /\ slug' = s
            /\ result' = Running("fetch_question")
            /\ net' = <<DetailRequest(s)>>
            /\ UNCHANGED <<all_items, skip>>
    /\ UNCHANGED <<now, files, outsideFetch>>

\* fetch_question from the answer to its detail request to its end
DetailResponse(resp) ==
    /\ pc = "detail"
    /\ LET data == post_graphql(resp)
           question == IF data.kind = "raise" THEN data ELSE Subscript(data.value, "question")
       IN IF question.kind = "raise"
          THEN /\ Finish("fetch_question", question)
               /\ UNCHANGED files
          ELSE /\ files' = save_cache(files, now, cache_name(slug), question.value)
               /\ Finish("fetch_question", Return(question.value))
    /\ UNCHANGED <<now, net, files0, outsideFetch>>

\* time passes
Tick(t) ==
    /\ t > now
    /\ now' = t
    /\ UNCHANGED <<files, pc, all_items, skip, slug, net, result, files0, outsideFetch>>

Next ==
    \/ FetchProblemList
    \/ \E resp \in ListResponses(MaxItems - Len(all_items)) : PageResponse(resp)
    \/ \E resp \in RestResponses : RestResponse(resp)
    \/ \E s \in Slugs : FetchQuestion(s)
    \/ \E resp \in DetailResponses(slug) : DetailResponse(resp)
    \/ \E t \in Instants : Tick(t)

Spec == Init /\ [][Next]_vars

----------------------------------------------------------------------------
(* The fetch layer's properties *)

\* a record as save_cache writes it: an object with a numeric fetched_at
IsRecord(text) ==
    /\ text.exists /\ text.json /\ text.doc.t = "dict"
    /\ dict_get(text.doc, "fetched_at").t = "int"

\* the record under name exists and its age is at most ttl_seconds
Fresh(fs, t, name, ttl_seconds) ==
    /\ IsRecord(fs[name])
    /\ ~Expired(t, dict_get(fs[name].doc, "fetched_at").v, ttl_seconds)

RecordData(fs, name) == dict_get(fs[name].doc, "data")

\* C1: when a page request of fetch_problem_list fails (transport error, timeout,
\* HTTP status, errors payload), the REST fallback is requested before an error
\* reaches the caller.
C1_FallbackBeforeError ==
    (/\ result.call = "fetch_problem_list"
     /\ result.kind = "raise"
     /\ result.exc \in {"URLError", "TimeoutError", "RuntimeError"}
     /\ net # <<>>)
    => \E i \in DOMAIN net : net[i] = RestRequest

\* C2: with a problem_list record of age at most 24 hours in the cache,
\* fetch_problem_list returns the record's payload, issues no request and leaves
\* the record as it is, whatever list an earlier fetch_problem_list saved.
C2_FreshListServedFromCache ==
    [][(FetchProblemList /\ Fresh(files, now, "problem_list.json", LIST_TTL_SECONDS))
       => /\ net' = <<>>
          /\ files' = files
          /\ result' = Ended("fetch_problem_list", Return(RecordData(files, "problem_list.json")))]_vars

\* C3: a fetch_question that misses the cache issues one detail request and saves
\* what it returns; a later fetch_question of the slug within 7 days issues no
\* request and returns the saved value, whatever the question field held.
C3_QuestionServedFromCache ==
    [][/\ ((\E resp \in DetailResponses(slug) : DetailResponse(resp)) /\ result'.kind = "return")
          => /\ net' = <<DetailRequest(slug)>>
             /\ IsRecord(files'[cache_name(slug)])
             /\ RecordData(files', cache_name(slug)) = result'.value
       /\ \A s \in Slugs :
            (FetchQuestion(s) /\ Fresh(files, now, cache_name(s), QUESTION_TTL_SECONDS))
            => /\ net' = <<>>
               /\ result' = Ended("fetch_question", Return(RecordData(files, cache_name(s))))]_vars

\* C4: a call that has not returned successfully (it raised, or it is still
\* running) has left the cache directory exactly as it found it.
C4_FailureLeavesCacheUntouched ==
    result.kind \in {"raise", "running"} => files = files0

\* C4 happens: primary and fallback both failed while a record was on disk
C4_Witness ==
    /\ result.call = "fetch_problem_list"
    /\ result.kind = "raise"
    /\ \E i \in DOMAIN net : net[i] = RestRequest
    /\ IsRecord(files["problem_list.json"])

\* C6: load_cache never raises: no call ends with an exception before it has
\* issued a request, whatever the cache file holds.
C6_LoadNeverRaises ==
    ~(result.kind = "raise" /\ net = <<>>)

\* C17: when the paginated path fails with pages already accumulated and the REST
\* fallback succeeds, the list returned is the fallback snapshot, entry for entry,
\* with no entry of the fetched pages in it, and the record saved holds that list.
C17_FallbackReplacesPartialPages ==
    [][\A resp \in RestResponses :
         (RestResponse(resp) /\ all_items # <<>> /\ result'.kind = "return")
         => LET payload == resp.text.doc
                pairs == IF "stat_status_pairs" \in DOMAIN payload.v
                         THEN payload.v["stat_status_pairs"].v ELSE <<>>
                returned == result'.value
            IN /\ returned.t = "list"
               /\ Len(returned.v) = Len(pairs)
               /\ \A n \in DOMAIN pairs :
                    /\ returned.v[n].v.titleSlug = pairs[n].v.stat.v.question__title_slug
                    /\ returned.v[n].v.questionFrontendId
                         = PyStr(str(pairs[n].v.stat.v.frontend_question_id.v))
                    /\ \A k \in DOMAIN all_items : returned.v[n] # all_items[k]
               /\ IsRecord(files'["problem_list.json"])
               /\ RecordData(files', "problem_list.json") = returned]_vars

\* C17 happens: a page was fetched, the next page request failed, and the
\* fallback's entries were returned and saved
C17_Witness ==
    /\ result.call = "fetch_problem_list"
    /\ result.kind = "return"
    /\ Len(net) >= 3
    /\ net[Len(net)] = RestRequest
    /\ result.value.v # <<>>
    /\ RecordData(files, "problem_list.json") = result.value

----------------------------------------------------------------------------
(* The cache on its own: save_cache and load_cache called with any name, value and TTL *)

CacheValues == {PyNone, PyList(<<GraphqlEntry(1)>>), QuestionDetail("two-sum")}
CacheTtls == {0, LIST_TTL_SECONDS, QUESTION_TTL_SECONDS}

\* save_cache(name, data)
SaveCache(name, data) ==
    /\ files' = save_cache(files, now, name, data)
    /\ lastSave' = [lastSave EXCEPT ![name] = [value |-> data, at |-> now]]
    /\ result' = Ended("save_cache", Return(PyNone))
    /\ UNCHANGED <<now, outsideCache>>

\* load_cache(name, ttl_seconds)
LoadCache(name, ttl_seconds) ==
    /\ result' = Ended("load_cache", load_cache(files, now, name, ttl_seconds))
    /\ UNCHANGED <<now, files, lastSave, outsideCache>>

NextCache ==
    \/ \E name \in CacheNames : \E data \in CacheValues : SaveCache(name, data)
    \/ \E name \in CacheNames : \E ttl_seconds \in CacheTtls : LoadCache(name, ttl_seconds)
    \/ \E t \in Instants : Tick(t)

SpecCache == Init /\ [][NextCache]_vars

\* the stamp save_cache stores when called at instant t: int(time.time())
StampAt(t) == t \div TicksPerSecond

\* the file holds an object whose fetched_at is missing or not a number
NoNumericStamp(text) ==
    /\ text.exists /\ text.json /\ text.doc.t = "dict"
    /\ dict_get(text.doc, "fetched_at").t \notin {"int", "float"}

----------------------------------------------------------------------------
(* The resolver. A string is the sequence of its characters. *)

Chars == {"1", "a", "A", "-", " ", "\t"}
MaxQueryLen == 3      \* longest query
MaxCatalog == 3       \* longest catalog

Digits == {"0", "1", "2", "3", "4", "5", "6", "7", "8", "9"}
Whitespace == {" ", "\t", "\n", "\r", "\f"}

\* c.lower()
LowerChar(c) == CASE c = "A" -> "a" [] c = "T" -> "t" [] c = "S" -> "s" [] OTHER -> c

\* text.isdigit()
is_number(text) == Len(text) > 0 /\ \A i \in 1..Len(text) : text[i] \in Digits

\* text.strip()
strip(text) ==
    LET keep == {i \in 1..Len(text) : text[i] \notin Whitespace} IN
    IF keep = {} THEN <<>>
    ELSE LET first == CHOOSE i \in keep : \A j \in keep : i <= j
             last == CHOOSE i \in keep : \A j \in keep : j <= i
         IN SubSeq(text, first, last)

\* text.lower()
lower(text) == [i \in 1..Len(text) |-> LowerChar(text[i])]

\* re.sub(r"\s+", " ", text): every maximal run of whitespace becomes one space
RECURSIVE sub_spaces(_)
sub_spaces(text) ==
    IF text = <<>> THEN <<>>
    ELSE IF Head(text) \notin Whitespace THEN <<Head(text)>> \o sub_spaces(Tail(text))
    ELSE IF Len(text) > 1 /\ text[2] \in Whitespace THEN sub_spaces(Tail(text))
    ELSE <<" ">> \o sub_spaces(Tail(text))

normalize_text(text) == sub_spaces(lower(strip(text)))

\* needle in hay
Contains(hay, needle) ==
    \E i \in 0..(Len(hay) - Len(needle)) : SubSeq(hay, i + 1, i + Len(needle)) = needle

\* the first item whose questionFrontendId is frontend_id, or None
find_by_id(items, frontend_id) ==
    LET hits == {i \in 1..Len(items) : items[i].questionFrontendId = frontend_id} IN
    IF hits = {} THEN PyNone
    ELSE PyDict(items[CHOOSE i \in hits : \A j \in hits : i <= j])

find_matches_title_only(items, q0) ==
    LET q == normalize_text(q0)
        Hit(item) == Contains(normalize_text(item.title), q)
    IN SelectSeq(items, Hit)

find_matches(items, q0) ==
    LET q == normalize_text(q0)
        Hit(item) == \/ Contains(normalize_text(item.title), q)
                     \/ Contains(normalize_text(item.titleSlug), q)
    IN SelectSeq(items, Hit)

\* the pair resolve_slug returns
Pair(s, m) == [done |-> TRUE, slug |-> s, matches |-> m]

resolve_slug_falls_through(q, items) ==
    LET matches == find_matches(items, q)
        fuzzy == IF matches = <<>> THEN Pair(PyNone, PyNone)
                 ELSE IF Len(matches) = 1 THEN Pair(PyStr(matches[1].titleSlug), PyNone)
                 ELSE Pair(PyNone, PyList(matches))
    IN IF is_number(q) /\ Truthy(find_by_id(items, q))
       THEN Pair(PyStr(find_by_id(items, q).v.titleSlug), PyNone)
       ELSE IF Contains(q, <<"-">>) /\ ~Contains(q, <<" ">>)
       THEN Pair(PyStr(strip(q)), PyNone)
       ELSE fuzzy

resolve_slug(q, items) ==
    IF is_number(q)
    THEN LET item == find_by_id(items, q) IN
         IF Truthy(item) THEN Pair(PyStr(item.v.titleSlug), PyNone)
         ELSE Pair(PyNone, PyNone)
    ELSE IF Contains(q, <<"-">>) /\ ~Contains(q, <<" ">>)
    THEN Pair(PyStr(strip(q)), PyNone)
    ELSE LET matches == find_matches(items, q) IN
         IF matches = <<>> THEN Pair(PyNone, PyNone)
         ELSE IF Len(matches) = 1 THEN Pair(PyStr(matches[1].titleSlug), PyNone)
         ELSE Pair(PyNone, PyList(matches))

\* the catalog entries of the model: questionFrontendId, title, titleSlug
SampleIds == {<<"1">>, <<"1", "1">>}
SampleNames ==
    {[title |-> <<"A", " ", "\t", "a">>, titleSlug |-> <<"a", "-", "a">>],
     [title |-> <<"1", "a">>, titleSlug |-> <<"1", "-", "a">>]}
Entries ==
    {[questionFrontendId |-> id, title |-> n.title, titleSlug |-> n.titleSlug] :
        id \in SampleIds, n \in SampleNames}

fetchUnused ==
    /\ now = 0
    /\ files = [m \in CacheNames |-> NoFile]
    /\ pc = "idle"
    /\ all_items = <<>>
    /\ skip = 0
    /\ slug = ""
    /\ net = <<>>
    /\ result = NoCall
    /\ files0 = files
    /\ lastSave = [m \in CacheNames |-> NoSave]

InitResolve ==
    /\ fetchUnused
    /\ PagingStart
    /\ RenderUnused
    /\ CmdUnused
    /\ HtmlUnused
    /\ RaceUnused
    /\ query \in SeqsUpTo(Chars, MaxQueryLen)
    /\ catalog \in SeqsUpTo(Entries, MaxCatalog)
    /\ resolved = NotResolved

\* slug, matches = resolve_slug(args.query, items)
Resolve ==
    /\ ~resolved.done
    /\ resolved' = resolve_slug(query, catalog)
    /\ UNCHANGED <<query, catalog, outsideResolve>>

NextResolve == Resolve

SpecResolve == InitResolve /\ [][NextResolve]_vars

\* the three outcomes
NotFound == Pair(PyNone, PyNone)
UniqueSlug(s) == Pair(PyStr(s), PyNone)
Ambiguous(m) == Pair(PyNone, PyList(m))

AllDigits(q) == q # <<>> /\ \A i \in 1..Len(q) : q[i] \in Digits
HasChar(q, cs) == \E i \in 1..Len(q) : q[i] \in cs

\* C7: for a query of digits, resolve_slug returns the slug of the first entry
\* whose frontendId equals the query, and notFound when there is none, also when
\* titles or slugs contain the query.
C7_NumericQueryById ==
    (resolved.done /\ AllDigits(query)) =>
        LET hits == {i \in 1..Len(catalog) : catalog[i].questionFrontendId = query} IN
        IF hits = {} THEN resolved = NotFound
        ELSE \E i \in hits : /\ \A j \in hits : i <= j
                             /\ resolved = UniqueSlug(catalog[i].titleSlug)

\* C7 happens: no entry has the id, yet a title contains the digits
C7_Witness ==
    /\ resolved.done
    /\ AllDigits(query)
    /\ \A i \in 1..Len(catalog) : catalog[i].questionFrontendId # query
    /\ \E i \in 1..Len(catalog) : Contains(catalog[i].title, query)
    /\ resolved = NotFound

\* rule 3 on its own: the result of fuzzy matching
Rule3(q, items) ==
    LET matches == find_matches(items, q) IN
    IF matches = <<>> THEN NotFound
    ELSE IF Len(matches) = 1 THEN UniqueSlug(matches[1].titleSlug)
    ELSE Ambiguous(matches)

\* C8: for a query that is not all digits, the literal-slug rule applies exactly
\* when the query has a hyphen and no whitespace character of any kind, and then
\* returns the query itself; every other such query is resolved by fuzzy matching.
C8_LiteralSlugRule ==
    (resolved.done /\ ~AllDigits(query)) =>
        IF HasChar(query, {"-"}) /\ ~HasChar(query, Whitespace)
        THEN resolved = UniqueSlug(query)
        ELSE resolved = Rule3(query, catalog)

\* the characters of text at the positions in keep, in order
Pick(text, keep) ==
    [k \in 1..Cardinality(keep) |->
        LET i == CHOOSE i \in keep : Cardinality({j \in keep : j <= i}) = k IN
        IF text[i] \in Whitespace THEN " " ELSE LowerChar(text[i])]

\* text trimmed, lowercased and with its whitespace runs collapsed: the words of
\* text in lower case, one space between two words
Normalized(text) ==
    LET solid == {i \in 1..Len(text) : text[i] \notin Whitespace}
        between == {i \in 1..Len(text) :
                      /\ text[i] \in Whitespace
                      /\ i + 1 \in solid
                      /\ \E j \in solid : j < i}
    IN Pick(text, solid \cup between)

\* the queries that reach rule 3
Rule3Query(q) == ~AllDigits(q) /\ ~(HasChar(q, {"-"}) /\ ~HasChar(q, {" "}))

\* the entries whose normalized title or slug contains the normalized query
MatchSet(q, items) ==
    LET Hit(item) == \/ Contains(Normalized(item.title), Normalized(q))
                     \/ Contains(Normalized(item.titleSlug), Normalized(q))
    IN SelectSeq(items, Hit)

\* C9: for a query that reaches rule 3, the match set is the entries whose
\* normalized title or slug contains the normalized query, in catalog order;
\* none gives notFound, one gives its slug, two or more give the whole set as
\* ambiguous; an ambiguous result has at least two entries and no slug.
C9_FuzzyOutcome ==
    (resolved.done /\ Rule3Query(query)) =>
        LET m == MatchSet(query, catalog) IN
        /\ Len(m) = 0 => resolved = NotFound
        /\ Len(m) = 1 => resolved = UniqueSlug(m[1].titleSlug)
        /\ Len(m) >= 2 => resolved = Ambiguous(m)
        /\ resolved.matches # PyNone => Len(resolved.matches.v) >= 2 /\ resolved.slug = PyNone

\* C9 happens: a query that needs normalizing matched two entries out of three
C9_Witness ==
    /\ resolved.done
    /\ Rule3Query(query)
    /\ Normalized(query) # query
    /\ resolved.matches # PyNone
    /\ Len(resolved.matches.v) = 2
    /\ Len(catalog) = 3

----------------------------------------------------------------------------
(* The pagination loop of fetch_problem_list on its own, against a server that *)
(* answers what it likes. Only the length of all_items is kept; a length or a  *)
(* skip beyond the modelled range is kept at the end of the range, which       *)
(* leaves every comparison with a modelled total exact.                        *)

MaxPage == 2                      \* entries in one page
MaxPages == 4                     \* page requests whose skip is kept exactly
MaxLen == MaxTotal + 1            \* lengths kept exactly: every finite total is below it
MaxSkip == limit * MaxPages

AtMost(n, max) == IF n > max THEN max ELSE n

\* the answers to a page request: a failure, or a page with a total that may be
\* wrong, in particular above every length the list will ever have
PagingResponses ==
    {UrlError, HttpError, ErrorsBody}
    \cup {ListBody(items, total) :
            items \in SeqsUpTo({GraphqlEntry(i) : i \in ProblemIds}, MaxPage),
            total \in {PyInt(n) : n \in 0..MaxTotal} \cup {PyInf}}

InitPaging ==
    /\ fetchUnused
    /\ ResolveUnused
    /\ PagingStart
    /\ RenderUnused
    /\ CmdUnused
    /\ HtmlUnused
    /\ RaceUnused

\* post_graphql(LIST_QUERY, {skip, limit}) is called
PagingRequest ==
    /\ p_pc = "send"
    /\ p_pc' = "wait"
    /\ p_sent' = p_skip
    /\ p_inflight' = p_inflight + 1
    /\ UNCHANGED <<p_skip, p_len, p_page, outsidePaging>>

PagingResponseIgnoresEmptyPage(resp) ==
    /\ p_pc = "wait"
    /\ p_inflight' = p_inflight - 1
    /\ LET problemset == PageOf(resp) IN
       IF problemset.kind = "raise"
       THEN /\ p_pc' = "failed"
            /\ UNCHANGED <<p_skip, p_len, p_page>>
       ELSE LET items == problemset.value.v["questions"].v
                total == problemset.value.v["total"]
            IN /\ p_len' = AtMost(p_len + Len(items), MaxLen)
               /\ p_skip' = AtMost(p_skip + limit, MaxSkip)
               /\ p_page' = [n |-> Len(items), total |-> total]
               /\ p_pc' = IF int_ge(p_len + Len(items), total) THEN "done" ELSE "send"
    /\ UNCHANGED <<p_sent, outsidePaging>>

\* the call returns: the rest of the loop body
PagingResponse(resp) ==
    /\ p_pc = "wait"
    /\ p_inflight' = p_inflight - 1
    /\ LET problemset == PageOf(resp) IN
       IF problemset.kind = "raise"
       THEN /\ p_pc' = "failed"
            /\ UNCHANGED <<p_skip, p_len, p_page>>
       ELSE LET items == problemset.value.v["questions"].v
                total == problemset.value.v["total"]
            IN /\ p_len' = AtMost(p_len + Len(items), MaxLen)
               /\ p_skip' = AtMost(p_skip + limit, MaxSkip)
               /\ p_page' = [n |-> Len(items), total |-> total]
               /\ p_pc' = IF int_ge(p_len + Len(items), total) \/ items = <<>>
                          THEN "done" ELSE "send"
    /\ UNCHANGED <<p_sent, outsidePaging>>

NextPaging ==
    \/ PagingRequest
    \/ \E resp \in PagingResponses : PagingResponse(resp)

SpecPaging == InitPaging /\ [][NextPaging]_vars

\* the process runs on: a request that can be sent is sent, and every request is
\* answered or times out after 30 s
FairPaging == SpecPaging /\ WF_vars(NextPaging)

\* C10 as claimed: whatever the server answers, the loop ends
C10_AlwaysTerminates == <>(p_pc \in {"done", "failed"})

\* C10: the loop stops at the first page at which the accumulated count is at
\* least the total reported with it or which is empty, and at no other page; it
\* has at most one request in flight and skip advances by 100 per page.
C10_StopsAtFirstSatisfiedPage ==
    [][/\ (p_pc = "wait" /\ p_pc' \in {"send", "done"}) =>
             /\ p_pc' = "done" <=>
                   (int_ge(p_len + p_page'.n, p_page'.total) \/ p_page'.n = 0)
             /\ p_len + p_page'.n <= MaxLen => p_len' = p_len + p_page'.n
             /\ p_skip + limit <= MaxSkip => p_skip' = p_skip + limit
       /\ (p_pc = "send" /\ p_pc' # "send") =>
             /\ p_pc' = "wait"
             /\ p_sent' = p_skip
             /\ p_inflight = 0 /\ p_inflight' = 1
       /\ p_pc \in {"done", "failed"} => UNCHANGED pagingVars]_vars

\* C10 happens: the total was reported too high and an empty third page ended the loop
C10_Witness ==
    /\ p_pc = "done"
    /\ p_page.n = 0
    /\ p_page.total = PyInt(MaxTotal)
    /\ p_len < MaxTotal
    /\ p_skip = 3 * limit

----------------------------------------------------------------------------
(* render_search: the lines printed for a list of matches.  The output is kept *)
(* as the sequence of its lines, each line as the fields its f-string joins;   *)
(* standard output is not a terminal, so color() returns its text as it is.    *)

MaxMatches == 3       \* entries in the list handed to render_search
MaxLimit == 3         \* --limit runs over -MaxLimit..MaxLimit, and the default

DEFAULT_LIMIT == 10

\* s[:n]: a negative n counts from the end
PySliceTo(s, n) ==
    LET stop == IF n < 0
                THEN (IF Len(s) + n < 0 THEN 0 ELSE Len(s) + n)
                ELSE (IF n > Len(s) THEN Len(s) ELSE n)
    IN SubSeq(s, 1, stop)

\* the line render_search appends for item
EntryLine(item) ==
    [frontend_id |-> dict_get(item, "questionFrontendId"),
     title |-> dict_get(item, "title"),
     difficulty |-> IF "difficulty" \in DOMAIN item.v THEN item.v["difficulty"] ELSE PyStr(""),
     paid_mark |-> IF Truthy(dict_get(item, "paidOnly")) THEN " (paid)" ELSE ""]

NoMatchesLine == [message |-> "No matches."]

render_search(matches, lim) ==
    LET shown == PySliceTo(matches, lim)
        lines == [n \in 1..Len(shown) |-> EntryLine(shown[n])]
    IN IF lines = <<>> THEN <<NoMatchesLine>> ELSE lines

\* a catalog entry behind the paywall
PaidEntry(i) ==
    PyDict([questionId |-> PyStr(str(i)), questionFrontendId |-> PyStr(str(i)),
            title |-> PyStr(Title(i)), titleSlug |-> PyStr(TitleSlug(i)),
            difficulty |-> PyStr("Hard"), paidOnly |-> PyBool(TRUE)])

RenderEntries == {GraphqlEntry(i) : i \in ProblemIds} \cup {PaidEntry(i) : i \in ProblemIds}

\* --limit is parsed with type=int: every integer is accepted
RenderLimits == (-MaxLimit .. MaxLimit) \cup {DEFAULT_LIMIT}

InitRender ==
    /\ fetchUnused
    /\ ResolveUnused
    /\ PagingStart
    /\ CmdUnused
    /\ HtmlUnused
    /\ RaceUnused
    /\ r_matches \in SeqsUpTo(RenderEntries, MaxMatches)
    /\ r_limit \in RenderLimits
    /\ r_out = <<>>

\* print(render_search(matches, args.limit))
RenderSearch ==
    /\ r_out = <<>>
    /\ r_out' = render_search(r_matches, r_limit)
    /\ UNCHANGED <<r_matches, r_limit, outsideRender>>

NextRender == RenderSearch

SpecRender == InitRender /\ [][NextRender]_vars

\* C19: for every list and every integer limit, zero and negative ones included,
\* render_search emits at most limit entry lines, the lines of the first entries
\* in the list's order, and emits "No matches." exactly when the list is empty.
C19_AtMostLimitLines ==
    LET entry_lines == IF r_out = <<NoMatchesLine>> THEN <<>> ELSE r_out IN
    r_out # <<>>
    => /\ Len(entry_lines) <= r_limit
       /\ Len(entry_lines) <= Len(r_matches)
       /\ \A n \in DOMAIN entry_lines : r_out[n] = EntryLine(r_matches[n])
       /\ (r_out = <<NoMatchesLine>>) <=> (r_matches = <<>>)

----------------------------------------------------------------------------
(* The subcommands and main: one process after another runs search, get or open *)
(* over the fetch layer, and ends with the status main hands to sys.exit.  An   *)
(* exception nothing catches ends the process with a traceback and status 1.    *)
(* The processes run within one second: what the age of a record does to a      *)
(* fetch is the fetch layer's matter (Spec); here a record is fresh or absent.  *)

\* the characters of the strings the catalog holds
chars(text) ==
    CASE text = "two-sum" -> <<"t", "w", "o", "-", "s", "u", "m">>
      [] text = "Two Sum" -> <<"T", "w", "o", " ", "S", "u", "m">>
      [] text = "1" -> <<"1">>
      [] text = "0" -> <<"0">>
      [] OTHER -> <<>>

\* "".join(cs)
RECURSIVE Join(_)
Join(cs) == IF cs = <<>> THEN "" ELSE Head(cs) \o Join(Tail(cs))

\* the fields of a catalog entry that find_by_id and find_matches read
ItemOf(entry) ==
    [questionFrontendId |-> chars(entry.v.questionFrontendId.v),
     title |-> chars(entry.v.title.v),
     titleSlug |-> chars(entry.v.titleSlug.v)]

ItemsOf(value) == [n \in 1..Len(value.v) |-> ItemOf(value.v[n])]

\* the entries of the catalog value that find_matches keeps for q
MatchesOf(value, q) ==
    LET Hit(entry) == find_matches(<<ItemOf(entry)>>, q) # <<>> IN
    SelectSeq(value.v, Hit)

Commands == {"search", "get", "open"}

\* args.query: an id the catalog has, an id it has not, a literal slug, a word of
\* the title, a word of no title
CmdQueries ==
    {<<"1">>, <<"2">>, chars("two-sum"), <<"t", "w", "o">>, <<"z", "z">>}

Message(text) == [message |-> text]

InitCmd ==
    /\ fetchUnused
    /\ ResolveUnused
    /\ PagingStart
    /\ RenderUnused
    /\ CmdUnused
    /\ HtmlUnused
    /\ RaceUnused

\* main: parse_args and the call of args.func, up to the call of fetch_problem_list
CmdStart(c, q) ==
    /\ cmd_pc \in {"none", "exit"}
    /\ pc = "idle"
    /\ command' = c
    /\ cmd_query' = q
    /\ cmd_pc' = "list"
    /\ cmd_slug' = ""
    /\ exit_code' = -1
    /\ printed' = <<>>
    /\ escaped' = ""
    /\ result' = NoCall
    /\ UNCHANGED <<now, files, pc, all_items, skip, slug, net, files0, outsideCmd>>

\* items = fetch_problem_list()
CmdFetchList ==
    /\ cmd_pc = "list"
    /\ result = NoCall
    /\ FetchProblemList

\* return exit_code, and sys.exit(exit_code) in main
Exit(lines, code) ==
    /\ printed' = printed \o lines
    /\ exit_code' = code
    /\ cmd_pc' = "exit"
    /\ escaped' = ""
    /\ UNCHANGED <<cmd_slug, result>>

\* an exception neither the subcommand nor main catches: the interpreter prints
\* the traceback and exits with status 1
Crash(exc) ==
    /\ printed' = Append(printed, Message("Traceback (most recent call last):"))
    /\ exit_code' = 1
    /\ cmd_pc' = "exit"
    /\ escaped' = exc
    /\ UNCHANGED <<cmd_slug, result>>

Caught == {"URLError", "RuntimeError"}

\* the subcommand from the end of fetch_problem_list to its next call or its end
CmdListDone ==
    /\ cmd_pc = "list"
    /\ pc = "idle"
    /\ result.call = "fetch_problem_list"
    /\ result.kind \in {"return", "raise"}
    /\ IF result.kind = "raise"
       THEN IF result.exc \in Caught
            THEN Exit(<<Message("Failed to fetch problem list")>>, 1)
            ELSE Crash(result.exc)
       ELSE IF command = "search"
       THEN Exit(render_search(MatchesOf(result.value, cmd_query), DEFAULT_LIMIT), 0)
       ELSE LET pair == resolve_slug(cmd_query, ItemsOf(result.value)) IN
            IF pair.matches.t = "list" /\ pair.matches.v # <<>>
            THEN Exit(render_search(MatchesOf(result.value, cmd_query), DEFAULT_LIMIT)
                        \o <<Message("Multiple matches. Be more specific or pass an id.")>>, 1)
            ELSE IF pair.slug.t = "None" \/ pair.slug.v = <<>>
            THEN Exit(<<Message("Problem not found.")>>, 1)
            ELSE IF command = "open"
            THEN Exit(<<Message("https://leetcode.com/problems/" \o Join(pair.slug.v) \o "/")>>, 0)
            ELSE /\ cmd_pc' = "detail"
                 /\ cmd_slug' = Join(pair.slug.v)
                 /\ result' = NoCall
                 /\ UNCHANGED <<exit_code, printed, escaped>>
    /\ UNCHANGED <<command, cmd_query>>
    /\ UNCHANGED <<now, files, pc, all_items, skip, slug, net, files0, outsideCmd>>

\* question = fetch_question(slug)
CmdFetchDetail ==
    /\ cmd_pc = "detail"
    /\ result = NoCall
    /\ FetchQuestion(cmd_slug)

\* cmd_get from the end of fetch_question to its end
CmdDetailDone ==
    /\ cmd_pc = "detail"
    /\ pc = "idle"
    /\ result.call = "fetch_question"
    /\ result.kind \in {"return", "raise"}
    /\ IF result.kind = "raise"
       THEN IF result.exc \in Caught
            THEN Exit(<<Message("Failed to fetch problem details")>>, 1)
            ELSE Crash(result.exc)
       ELSE LET question == result.value IN
            IF question.t # "dict"
            THEN Crash("AttributeError")
            ELSE IF Truthy(dict_get(question, "isPaidOnly")) /\ ~Truthy(dict_get(question, "content"))
            THEN Exit(<<Message("Paid-only problem."), [question |-> question]>>, 0)
            ELSE Exit(<<[question |-> question]>>, 0)
    /\ UNCHANGED <<command, cmd_query>>
    /\ UNCHANGED <<now, files, pc, all_items, skip, slug, net, files0, outsideCmd>>

\* Ctrl-C while args.func runs: main prints "Cancelled." and exits with 130
Interrupt ==
    /\ cmd_pc \in {"list", "detail"}
    /\ printed' = Append(printed, Message("Cancelled."))
    /\ exit_code' = 130
    /\ cmd_pc' = "exit"
    /\ IF pc = "idle"
       THEN UNCHANGED <<pc, all_items, skip, slug, result>>
       ELSE Finish(result.call, Raise("KeyboardInterrupt"))
    /\ UNCHANGED <<command, cmd_query, cmd_slug, escaped>>
    /\ UNCHANGED <<now, files, net, files0, outsideCmd>>

NextCmd ==
    \/ \E c \in Commands, q \in CmdQueries : CmdStart(c, q)
    \/ CmdFetchList
    \/ \E resp \in ListResponses(MaxItems - Len(all_items)) : PageResponse(resp)
    \/ \E resp \in RestResponses : RestResponse(resp)
    \/ CmdListDone
    \/ CmdFetchDetail
    \/ \E resp \in DetailResponses(slug) : DetailResponse(resp)
    \/ CmdDetailDone
    \/ Interrupt

SpecCmd == InitCmd /\ [][NextCmd]_vars

\* C11: a subcommand ends with status 0 only on success, with 1 on every handled
\* failure (no match or not found, ambiguous, fetch error) and with 130 on
\* interruption: a query that matches no catalog entry gives 1 for search as it
\* does for get and open.
C11_ExitStatus ==
    LET Interrupted == printed # <<>> /\ printed[Len(printed)] = Message("Cancelled.")
        FailureLines ==
            {Message("Failed to fetch problem list"), Message("Failed to fetch problem details"),
             Message("Problem not found."),
             Message("Multiple matches. Be more specific or pass an id."), NoMatchesLine}
        PrintedFailure == \E i \in DOMAIN printed : printed[i] \in FailureLines
    IN cmd_pc = "exit"
       => /\ exit_code \in {0, 1, 130}
          /\ (exit_code = 130) <=> Interrupted
          /\ (PrintedFailure /\ ~Interrupted) => exit_code = 1
          /\ exit_code = 0 => (~PrintedFailure /\ escaped = "")

\* C12: whatever the catalog fetch and the detail fetch of a get run into
\* (transport error, timeout, HTTP status, errors payload, malformed body, a null
\* question), the command ends on a handled path: no exception escapes, and it
\* prints one error line and returns status 1.
C12_GetFailsOnHandledPath ==
    LET Interrupted == printed # <<>> /\ printed[Len(printed)] = Message("Cancelled.")
        ErrorLines ==
            {Message("Failed to fetch problem list"), Message("Failed to fetch problem details"),
             Message("Problem not found.")}
        FetchFailed ==
            \/ result.kind = "raise"
            \/ /\ result.call = "fetch_question" /\ result.kind = "return"
               /\ result.value.t # "dict"
    IN (command = "get" /\ cmd_pc = "exit" /\ ~Interrupted)
       => /\ escaped = ""
          /\ FetchFailed
               => /\ exit_code = 1
                  /\ Len(printed) = 1
                  /\ printed[1] \in ErrorLines

----------------------------------------------------------------------------
(* HtmlToText and html_to_text.  HTMLParser.feed is library code: it is taken *)
(* as the sequence of handler calls it makes, one per start tag, end tag and  *)
(* run of text; for a text without markup that is one handle_data call.       *)

MaxEvents == 4        \* handler calls of one feed

\* the character U+0060, which a TLA+ string cannot hold
Backtick == "BACKTICK"

\* s.endswith("\n")
endswith_newline(s) == s # <<>> /\ s[Len(s)] = "\n"

\* " ".join(data.split())
collapse(data) == sub_spaces(strip(data))

_append(self, text, by) ==
    [self EXCEPT !.chunks = Append(@, text), !.origin = Append(@, by)]

_newline_keeps_pending(self) ==
    IF self.chunks = <<>> \/ endswith_newline(self.chunks[Len(self.chunks)])
    THEN self
    ELSE _append(self, <<"\n">>, "newline")

_newline_unconditional(self) ==
    IF self.chunks = <<>>
    THEN self
    ELSE [_append(self, <<"\n">>, "newline") EXCEPT !.pending_space = FALSE]

_newline(self) ==
    IF self.chunks = <<>> \/ endswith_newline(self.chunks[Len(self.chunks)])
    THEN self
    ELSE [_append(self, <<"\n">>, "newline") EXCEPT !.pending_space = FALSE]

handle_starttag(self, tag) ==
    IF tag \in {"p", "br"} THEN _newline(self)
    ELSE IF tag = "pre" THEN [_newline(self) EXCEPT !.in_pre = TRUE]
    ELSE IF tag = "code" /\ ~self.in_pre THEN _append(self, <<Backtick>>, "tick")
    ELSE IF tag \in {"ul", "ol"} THEN _newline(self)
    ELSE IF tag = "li" THEN _append(_newline(self), <<"-", " ">>, "prefix")
    ELSE self

handle_endtag(self, tag) ==
    IF tag = "pre" THEN [_newline(self) EXCEPT !.in_pre = FALSE]
    ELSE IF tag = "code" /\ ~self.in_pre THEN _append(self, <<Backtick>>, "tick")
    ELSE IF tag \in {"p", "br"} THEN _newline(self)
    ELSE self

handle_data_keeps_whitespace(self, data) ==
    IF data = <<>> THEN self
    ELSE IF self.in_pre THEN _append(self, data, "pre")
    ELSE LET spaced == IF self.pending_space
                       THEN [_append(self, <<" ">>, "space") EXCEPT !.pending_space = FALSE]
                       ELSE self
         IN [_append(spaced, data, "text") EXCEPT !.pending_space = TRUE]

handle_data(self, data) ==
    IF data = <<>> THEN self
    ELSE IF self.in_pre THEN _append(self, data, "pre")
    ELSE LET text == collapse(data) IN
         IF text = <<>> THEN self
         ELSE LET spaced == IF self.pending_space
                            THEN [_append(self, <<" ">>, "space") EXCEPT !.pending_space = FALSE]
                            ELSE self
              IN [_append(spaced, text, "text") EXCEPT !.pending_space = TRUE]

\* "".join(chunks)
RECURSIVE Concat(_)
Concat(chunks) == IF chunks = <<>> THEN <<>> ELSE Head(chunks) \o Concat(Tail(chunks))

get_text(self) == strip(Concat(self.chunks))

\* html_to_text on a text without markup: feed hands all of it to handle_data
html_to_text_plain(text) ==
    get_text(IF text = <<>> THEN NewParser ELSE handle_data(NewParser, text))

\* the tags with a branch of their own in a handler, and one tag with none
Tags == {"p", "br", "pre", "code", "ul", "ol", "li", "b"}

\* the runs of text handed to handle_data
Texts ==
    {<<>>, <<"a">>, <<" ">>, <<"\n">>, <<" ", "a">>, <<"a", "\n">>, <<"a", " ", " ", "a">>}

InitHtml ==
    /\ fetchUnused
    /\ ResolveUnused
    /\ PagingStart
    /\ RenderUnused
    /\ CmdUnused
    /\ RaceUnused
    /\ HtmlUnused

\* feed calls handle_starttag(tag, attrs)
StartTag(tag) ==
    /\ h_text = PyNone
    /\ h_fed < MaxEvents
    /\ parser' = handle_starttag(parser, tag)
    /\ h_fed' = h_fed + 1
    /\ UNCHANGED <<h_text, h_again, h_left_pre, outsideHtml>>

\* feed calls handle_endtag(tag)
EndTag(tag) ==
    /\ h_text = PyNone
    /\ h_fed < MaxEvents
    /\ parser' = handle_endtag(parser, tag)
    /\ h_fed' = h_fed + 1
    /\ UNCHANGED <<h_text, h_again, h_left_pre, outsideHtml>>

\* feed calls handle_data(data)
Data(data) ==
    /\ h_text = PyNone
    /\ h_fed < MaxEvents
    /\ parser' = handle_data(parser, data)
    /\ h_fed' = h_fed + 1
    /\ UNCHANGED <<h_text, h_again, h_left_pre, outsideHtml>>

\* return parser.get_text()
GetText ==
    /\ h_text = PyNone
    /\ h_text' = PyStr(get_text(parser))
    /\ UNCHANGED <<parser, h_fed, h_again, h_left_pre, outsideHtml>>

\* html_to_text(text) for the text the call returned
Reconvert ==
    /\ h_text # PyNone
    /\ h_again = PyNone
    /\ h_again' = PyStr(html_to_text_plain(h_text.v))
    /\ UNCHANGED <<parser, h_fed, h_text, h_left_pre, outsideHtml>>

HtmlToTextReusesParser ==
    /\ h_text # PyNone
    /\ parser' = [NewParser EXCEPT !.in_pre = parser.in_pre]
    /\ h_fed' = 0
    /\ h_text' = PyNone
    /\ h_again' = PyNone
    /\ h_left_pre' = parser.in_pre
    /\ UNCHANGED outsideHtml

\* the next call of html_to_text: parser = HtmlToText()
HtmlToText ==
    /\ h_text # PyNone
    /\ parser' = NewParser
    /\ h_fed' = 0
    /\ h_text' = PyNone
    /\ h_again' = PyNone
    /\ h_left_pre' = parser.in_pre
    /\ UNCHANGED outsideHtml

NextHtml ==
    \/ \E tag \in Tags : StartTag(tag)
    \/ \E tag \in Tags : EndTag(tag)
    \/ \E data \in Texts : Data(data)
    \/ GetText
    \/ Reconvert
    \/ HtmlToText

SpecHtml == InitHtml /\ [][NextHtml]_vars

C14_NoBlankLineFromTags ==
    /\ \A i \in DOMAIN parser.chunks : parser.chunks[i] # <<>>
    /\ \A i \in DOMAIN parser.chunks :
         parser.origin[i] = "newline" => (i > 1 /\ ~endswith_newline(parser.chunks[i - 1]))

\* C14 happens: a tag after text forced a newline, and the end of a pre block
\* whose text ended with a newline forced none
C14_Witness ==
    /\ parser.origin = <<"text", "newline", "pre">>
    /\ endswith_newline(parser.chunks[3])
    /\ ~parser.in_pre

\* C15: outside a pre block, two consecutive text chunks with no forced newline
\* between them have exactly one separator space between them, and a text chunk
\* that is the first one after a forced newline (or the first of all) has none; a
\* run of text that is empty after collapsing changes nothing; a forced newline
\* that is emitted clears the pending separator.
C15_OneSpaceBetweenTexts ==
    /\ [](LET Last(S) == IF S = {} THEN 0 ELSE CHOOSE i \in S : \A k \in S : k <= i
              TextBefore(j) == Last({i \in 1..(j - 1) : parser.origin[i] = "text"})
              NewlineBefore(j) == Last({i \in 1..(j - 1) : parser.origin[i] = "newline"})
              SpacesBetween(i, j) ==
                  Cardinality({k \in (i + 1)..(j - 1) : parser.origin[k] = "space"})
          IN \A j \in DOMAIN parser.chunks :
                parser.origin[j] = "text"
                => IF TextBefore(j) > 0 /\ NewlineBefore(j) < TextBefore(j)
                   THEN SpacesBetween(TextBefore(j), j) = 1
                   ELSE SpacesBetween(TextBefore(j), j) = 0)
    /\ []((parser.chunks # <<>> /\ parser.origin[Len(parser.chunks)] = "newline")
            => ~parser.pending_space)
    /\ [][\A data \in Texts :
            (Data(data) /\ ~parser.in_pre /\ collapse(data) = <<>>) => parser' = parser]_vars

\* C15 happens: text, text with one space between; text, newline, text with none
C15_Witness ==
    \E i \in DOMAIN parser.chunks :
        /\ i + 4 <= Len(parser.chunks)
        /\ SubSeq(parser.origin, i, i + 4) = <<"text", "space", "text", "newline", "text">>

\* C16: inside a pre block a run of text is appended as it is and the pending
\* flag stays as it was, and a code tag appends nothing; every call of
\* html_to_text starts outside a pre block, whatever the call before it left.
C16_VerbatimInsidePre ==
    /\ [](h_fed = 0 => ~parser.in_pre)
    /\ [][/\ \A data \in Texts \ {<<>>} :
              (Data(data) /\ parser.in_pre)
              => /\ parser'.chunks = Append(parser.chunks, data)
                 /\ parser'.pending_space = parser.pending_space
                 /\ parser'.in_pre
          /\ ((StartTag("code") \/ EndTag("code")) /\ parser.in_pre)
              => parser'.chunks = parser.chunks]_vars

\* C16 happens: the call before ended inside a pre block, and in this call a run
\* of text with two spaces in a row stands in the output of a pre block as it came
C16_Witness ==
    /\ h_left_pre
    /\ parser.in_pre
    /\ \E i \in DOMAIN parser.chunks :
         parser.origin[i] = "pre" /\ parser.chunks[i] = <<"a", " ", " ", "a">>

\* C20: a separator space always stands directly between two text chunks, never
\* between a backtick or a list prefix and the text after it.
C20_SpaceOnlyBetweenTexts ==
    \A i \in DOMAIN parser.chunks :
        parser.origin[i] = "space"
        => /\ 1 < i /\ i < Len(parser.chunks)
           /\ parser.origin[i - 1] = "text"
           /\ parser.origin[i + 1] = "text"

----------------------------------------------------------------------------
(* Two processes on one cache file, with no lock between them.  The steps are *)
(* the file operations of load_cache (path.exists, path.read_text) and of     *)
(* save_cache (path.write_text: open, which truncates, and write, which       *)
(* starts at the offset of the process's own descriptor, 0).  The file is     *)
(* kept as the sequence of the tokens of its text.                            *)

MaxOps == 2           \* operations one process runs, one after another
MaxRaceItems == 2     \* entries in a list that is saved

Procs == {1, 2}

\* the text save_cache writes for data, a list: json.dumps of its payload
encode(data) ==
    LET payload == save_cache([n \in {"problem_list.json"} |-> NoFile], now,
                              "problem_list.json", data)["problem_list.json"].doc
    IN <<[c |-> "{"], [c |-> "fetched_at", v |-> payload.v.fetched_at], [c |-> "["]>>
       \o [n \in 1..Len(payload.v.data.v) |-> [c |-> "item", v |-> payload.v.data.v[n]]]
       \o <<[c |-> "]"], [c |-> "}"]>>

\* what json.loads makes of a text: the document, when the text is one
decode(bytes) ==
    LET n == Len(bytes)
        ok == /\ n >= 5
              /\ bytes[1].c = "{" /\ bytes[2].c = "fetched_at" /\ bytes[3].c = "["
              /\ \A i \in 4..(n - 2) : bytes[i].c = "item"
              /\ bytes[n - 1].c = "]" /\ bytes[n].c = "}"
    IN IF ok
       THEN JsonText(PyDict([fetched_at |-> bytes[2].v,
                             data |-> PyList([i \in 1..(n - 5) |-> bytes[i + 3].v])]))
       ELSE Garbage

\* write(text) at offset 0 of a file that holds old
Overlay(old, text) ==
    [i \in 1..(IF Len(old) > Len(text) THEN Len(old) ELSE Len(text)) |->
        IF i <= Len(text) THEN text[i] ELSE old[i]]

RaceValues == {PyList(l) : l \in SeqsUpTo(RenderEntries, MaxRaceItems)}

IdleProc ==
    [op |-> "", pc |-> "idle", data |-> PyNone,
     ret |-> [kind |-> "none", value |-> PyNone, exc |-> ""], ops |-> 0]

InitRace ==
    /\ fetchUnused
    /\ ResolveUnused
    /\ PagingStart
    /\ RenderUnused
    /\ CmdUnused
    /\ HtmlUnused
    /\ procs = [p \in Procs |-> IdleProc]
    /\ \/ /\ disk = [exists |-> FALSE, bytes |-> <<>>]
          /\ last_writer = [proc |-> 0, data |-> PyNone, wrote |-> {}]
       \/ \E data \in RaceValues :
             /\ disk = [exists |-> TRUE, bytes |-> encode(data)]
             /\ last_writer = [proc |-> 0, data |-> data, wrote |-> {data}]

\* a process calls load_cache(name, ttl_seconds)
BeginLoad(p) ==
    /\ procs[p].pc \in {"idle", "done"}
    /\ procs[p].ops < MaxOps
    /\ procs' = [procs EXCEPT ![p] = [op |-> "load", pc |-> "exists", data |-> PyNone,
                                       ret |-> IdleProc.ret, ops |-> @.ops + 1]]
    /\ UNCHANGED <<disk, last_writer, outsideRace>>

\* a process calls save_cache(name, data)
BeginSave(p, data) ==
    /\ procs[p].pc \in {"idle", "done"}
    /\ procs[p].ops < MaxOps
    /\ procs' = [procs EXCEPT ![p] = [op |-> "save", pc |-> "open", data |-> data,
                                       ret |-> IdleProc.ret, ops |-> @.ops + 1]]
    /\ UNCHANGED <<disk, last_writer, outsideRace>>

\* if not path.exists(): return None
ExistsCheck(p) ==
    /\ procs[p].pc = "exists"
    /\ procs' = [procs EXCEPT ![p] =
                    IF disk.exists THEN [@ EXCEPT !.pc = "read"]
                    ELSE [@ EXCEPT !.pc = "done", !.ret = Return(PyNone)]]
    /\ UNCHANGED <<disk, last_writer, outsideRace>>

\* path.read_text(), and load_cache from there to its end
ReadText(p) ==
    /\ procs[p].pc = "read"
    /\ LET fs == [n \in {"problem_list.json"} |-> decode(disk.bytes)] IN
       procs' = [procs EXCEPT ![p] =
                    [@ EXCEPT !.pc = "done",
                              !.ret = load_cache(fs, now, "problem_list.json",
                                                 LIST_TTL_SECONDS)]]
    /\ UNCHANGED <<disk, last_writer, outsideRace>>

\* path.write_text: open(path, "w") creates the file or cuts it to length 0
Truncate(p) ==
    /\ procs[p].pc = "open"
    /\ disk' = [exists |-> TRUE, bytes |-> <<>>]
    /\ procs' = [procs EXCEPT ![p].pc = "write"]
    /\ UNCHANGED <<last_writer, outsideRace>>

\* path.write_text: write(text) and close
Write(p) ==
    /\ procs[p].pc = "write"
    /\ disk' = [disk EXCEPT !.bytes = Overlay(@, encode(procs[p].data))]
    /\ procs' = [procs EXCEPT ![p].pc = "done"]
    /\ last_writer' = [proc |-> p, data |-> procs[p].data,
                       wrote |-> last_writer.wrote \cup {procs[p].data}]
    /\ UNCHANGED outsideRace

NextRace ==
    \/ \E p \in Procs : BeginLoad(p)
    \/ \E p \in Procs : \E data \in RaceValues : BeginSave(p, data)
    \/ \E p \in Procs : ExistsCheck(p)
    \/ \E p \in Procs : ReadText(p)
    \/ \E p \in Procs : Truncate(p)
    \/ \E p \in Procs : Write(p)

SpecRace == InitRace /\ [][NextRace]_vars

\* C18: with two processes on one key and no lock, in every interleaving of the
\* file operations a load returns absent or a payload some save wrote in full,
\* never a mixture; and when both processes have finished, the file holds the
\* complete record of the process that wrote last.
C18_LastWriterWins ==
    /\ \A p \in Procs :
         (procs[p].op = "load" /\ procs[p].pc = "done")
         => /\ procs[p].ret.kind = "return"
            /\ procs[p].ret.value = PyNone \/ procs[p].ret.value \in last_writer.wrote
    /\ ((\A p \in Procs : procs[p].pc \in {"idle", "done"}) /\ last_writer.proc # 0)
         => disk.bytes = encode(last_writer.data)

====
